---- MODULE Spec2Model ----
(***************************************************************************)
(* The drop point model of c3bottles (src/model.py): DropPoint, Location,  *)
(* Capacity, Report and Visit, the validation their constructors do, and   *)
(* the queries computed from the stored rows (new report count, last       *)
(* state, priority).                                                       *)
(*                                                                         *)
(* An object is a thing db.session.add() has been called on, or a          *)
(* DropPoint whose constructor ran.  DropPoint objects are numbered in the *)
(* order of their constructor calls (the index into dps); a Location,      *)
(* Capacity, Report or Visit row is kept in the sequence of the DropPoint  *)
(* object its dp attribute refers to, in the order of the add() calls.     *)
(* A relationship (dp.locations, dp.reports, ...) is read as the query it  *)
(* stands for, over the rows added so far.                                 *)
(*                                                                         *)
(* Time is datetime, counted in ticks of TickSeconds seconds.  Every       *)
(* datetime is truthy, so `if start_time` is a test for None.  Inputs that *)
(* are not datetime objects are not modelled.  A priority is counted in    *)
(* hundredths.                                                             *)
(***************************************************************************)
EXTENDS Integers, Sequences, FiniteSets, TLC

\* ---------------------------------------------------------------- bounds
MaxTime == 1        \* the clock runs over 0..MaxTime ticks
TickSeconds == 30   \* seconds in one tick of the clock
MaxSession == 4     \* the size of the session, see SessionSize
MaxNeglect == 1     \* the long waits of the clock, see Neglect

\* ------------------------------------------------------------- constants
None == -1000       \* None, where a datetime or a number is expected
NotANumber == -1001 \* a value such as "abc": int() and float() raise on it
NoDescription == "<None>"   \* None, where a description is expected
max_description == 140
default_crate_count == 1

report_states ==
  <<"DEFAULT", "NO_CRATES", "EMPTY", "SOME_BOTTLES", "REASONABLY_FULL",
    "FULL", "OVERFLOW">>

visit_actions ==
  <<"EMPTIED", "ADDED_CRATE", "REMOVED_CRATE", "RELOCATED", "REMOVED",
    "NO_ACTION">>

Range(s) == {s[i] : i \in DOMAIN s}

VARIABLES
  now,         \* datetime.today(), in ticks
  dps,         \* the DropPoint objects constructed: [number, removed, added]
  locations,   \* locations[o]: the Location rows added with dp = object o
  capacities,  \* capacities[o]: the Capacity rows added with dp = object o
  reports,     \* reports[o]: the Report rows added with dp = object o
  visits,      \* visits[o]: the Visit rows added with dp = object o
  thr          \* thr[t]: how far thread t is in DropPoint.__init__

vars == <<now, dps, locations, capacities, reports, visits, thr>>

\* ------------------------------------------------------------ validation
Err(field, message) == <<field, message>>

ErrIf(cond, field, message) == IF cond THEN <<Err(field, message)>> ELSE <<>>

\* int(x) and float(x) raise TypeError on None and ValueError on "abc"
Raises(x) == x \in {None, NotANumber}

\* str(description): None becomes the text "None"
str(description) ==
  IF description = NoDescription THEN "None" ELSE description

\* rows[-1].start_time of a relationship with order_by start_time: the
\* greatest start time of the rows
LastStartTime(rows) ==
  CHOOSE t \in {r.start_time : r \in Range(rows)} :
    \A r \in Range(rows) : r.start_time <= t

\* StartTimeErrors without the comparison with the current row
StartTimeErrors_NoOrder(cls, rows, start_time) ==
  ErrIf(start_time # None /\ start_time > now,
        cls, "Start time in the future.")

\* the checks on start_time that Location and Capacity share, with the
\* name of the class as the key of the errors
StartTimeErrors(cls, rows, start_time) ==
     ErrIf(start_time # None /\ start_time > now,
           cls, "Start time in the future.")
  \o ErrIf(rows # <<>> /\ start_time # None
             /\ start_time < LastStartTime(rows),
           cls, cls \o " older than current.")

StartTimeOf(start_time) == IF start_time # None THEN start_time ELSE now

\* Location.__init__: the errors it collects, in order
Location_errors(rows, start_time, description, lat, lng, level) ==
     StartTimeErrors("Location", rows, start_time)
  \o ErrIf(Raises(lat), "lat", "Latitude is not a floating point number.")
  \o ErrIf(~Raises(lat) /\ ~(-90 < lat /\ lat < 90),
           "lat", "Latitude is not between 90 degrees N/S.")
  \o ErrIf(Raises(lng), "lng", "Longitude is not a floating point number.")
  \o ErrIf(~Raises(lng) /\ ~(-180 < lng /\ lng < 180),
           "lat", "Longitude is not between 180 degrees W/E.")
  \o ErrIf(Raises(level), "level", "Building level is not a number.")
  \o ErrIf(Len(str(description)) > max_description,
           "description", "Room description is too long.")

\* the Location row that Location.__init__ adds when it found no error
Location_row(start_time, description, lat, lng, level) ==
  [start_time |-> StartTimeOf(start_time), description |-> str(description),
   lat |-> lat, lng |-> lng, level |-> level]

\* Capacity.__init__: the errors it collects, in order
Capacity_errors(rows, start_time, crates) ==
     StartTimeErrors("Capacity", rows, start_time)
  \o ErrIf(crates # None /\ Raises(crates),
           "crates", "Crate count is not a number.")
  \o ErrIf(~Raises(crates) /\ crates < 0,
           "crates", "Crate count is not positive.")

\* Capacity_row with no default of the column
Capacity_row_NoDefault(start_time, crates) ==
  [start_time |-> StartTimeOf(start_time), crates |-> crates]

\* the Capacity row that Capacity.__init__ adds when it found no error; with
\* crates = None the attribute is never set and the column default fills it
Capacity_row(start_time, crates) ==
  [start_time |-> StartTimeOf(start_time),
   crates |-> IF crates = None THEN default_crate_count ELSE crates]

\* Report_errors without the check of the time
Report_errors_NoFuture(time, state) ==
  ErrIf(state \notin Range(report_states),
        "Report", "Invalid or missing reported state.")

\* Report.__init__ and Visit.__init__: the errors they collect
Report_errors(time, state) ==
     ErrIf(time # None /\ time > now, "Report", "Start time in the future.")
  \o ErrIf(state \notin Range(report_states),
           "Report", "Invalid or missing reported state.")

Visit_errors(time, action) ==
     ErrIf(time # None /\ time > now, "Visit", "Start time in the future.")
  \o ErrIf(action \notin Range(visit_actions),
           "Visit", "Invalid or missing maintenance action.")

\* ---------------------------------------------------------------- state
\* the DropPoint objects db.session.add(self) was called on
Added == {o \in DOMAIN dps : dps[o].added}

\* db.session.query(DropPoint).get(number)
Get(number) == {o \in Added : dps[o].number = number}

\* the rows of all the drop points but the one each DropPoint constructor made
RECURSIVE Rows(_, _, _)
Rows(table, made, n) ==
  IF n = 0 THEN 0
  ELSE (IF n \in Added THEN Len(table[n]) - made ELSE 0)
         + Rows(table, made, n - 1)

\* the size of the session, which the model bounds: two for every DropPoint
\* constructed, with its first Location and Capacity, and one for every
\* Location, Capacity, Report and Visit added to a drop point later
SessionSize ==
  2 * Len(dps) + Rows(locations, 1, Len(dps)) + Rows(capacities, 1, Len(dps))
    + Rows(reports, 0, Len(dps)) + Rows(visits, 0, Len(dps))

\* `if errors: raise ValueError(errors)`
Raised(errors) == IF errors = <<>> THEN "none" ELSE "ValueError"

\* the threads that construct drop points at the same time
Threads == {1, 2}

Idle ==
  [pc |-> "idle", o |-> 0, number |-> None, loc |-> <<>>, crates |-> None,
   start_time |-> None, errors |-> <<>>]

Init ==
  /\ now = 0
  /\ dps = <<>>
  /\ locations = <<>>
  /\ capacities = <<>>
  /\ reports = <<>>
  /\ visits = <<>>
  /\ thr = [t \in Threads |-> Idle]

\* --------------------------------------------------------------- queries
\* A query with order_by and first(), or [-1] on an ordered relationship,
\* returns a row with the greatest time; which one, among rows of equal
\* time, the database decides.  Such a query is modelled by the set of the
\* rows it can return (empty for None), and what is computed from it by
\* the set of the values that can come out.

\* DropPoint.get_last_report(): reports.order_by(time.desc()).first()
get_last_report(o) ==
  {r \in Range(reports[o]) : \A q \in Range(reports[o]) : q.time <= r.time}

\* DropPoint.get_last_visit(): visits.order_by(time.desc()).first()
get_last_visit(o) ==
  {v \in Range(visits[o]) : \A w \in Range(visits[o]) : w.time <= v.time}

\* last_visit.time: the same for every row get_last_visit can return
last_visit_time(o) == CHOOSE t \in {v.time : v \in get_last_visit(o)} : TRUE

\* DropPoint.get_current_location(): locations[-1], or None
get_current_location(o) ==
  {r \in Range(locations[o]) :
     \A q \in Range(locations[o]) : q.start_time <= r.start_time}

\* DropPoint.get_current_crate_count(): capacities[-1].crates, or 0
get_current_crate_count(o) ==
  IF capacities[o] # <<>>
    THEN {r.crates : r \in {r \in Range(capacities[o]) :
            \A q \in Range(capacities[o]) : q.start_time <= r.start_time}}
    ELSE {0}

\* DropPoint.get_total_report_count()
get_total_report_count(o) == Len(reports[o])

\* ReportsAfter with >= for >
ReportsAfter_Inclusive(o, time) ==
  SelectSeq(reports[o], LAMBDA r : r.time >= time)

\* reports.filter(Report.time > time)
ReportsAfter(o, time) == SelectSeq(reports[o], LAMBDA r : r.time > time)

\* DropPoint.get_new_report_count()
get_new_report_count(o) ==
  IF get_last_visit(o) # {}
    THEN Len(ReportsAfter(o, last_visit_time(o)))
    ELSE get_total_report_count(o)

\* DropPoint.get_new_reports(): the order of the rows plays no part in what
\* is computed from them
get_new_reports(o) ==
  IF get_last_visit(o) # {}
    THEN ReportsAfter(o, last_visit_time(o))
    ELSE reports[o]

\* get_last_state with >= for >
get_last_state_Inclusive(o) ==
  IF get_last_report(o) # {} /\ get_last_visit(o) # {}
    THEN {IF v.time >= r.time /\ v.action = "EMPTIED" THEN "EMPTY"
          ELSE r.state : r \in get_last_report(o), v \in get_last_visit(o)}
  ELSE IF get_last_report(o) # {}
    THEN {r.state : r \in get_last_report(o)}
  ELSE {"UNKNOWN"}

\* get_last_state with "EMPTY" for a drop point that has no report and was
\* emptied at its latest visit
get_last_state_VisitDecides(o) ==
  IF get_last_report(o) # {} /\ get_last_visit(o) # {}
    THEN {IF v.time > r.time /\ v.action = "EMPTIED" THEN "EMPTY"
          ELSE r.state : r \in get_last_report(o), v \in get_last_visit(o)}
  ELSE IF get_last_report(o) # {}
    THEN {r.state : r \in get_last_report(o)}
  ELSE IF get_last_visit(o) # {}
    THEN {IF v.action = "EMPTIED" THEN "EMPTY" ELSE "UNKNOWN" :
            v \in get_last_visit(o)}
  ELSE {"UNKNOWN"}

\* DropPoint.get_last_state()
get_last_state(o) ==
  IF get_last_report(o) # {} /\ get_last_visit(o) # {}
    THEN {IF v.time > r.time /\ v.action = "EMPTIED" THEN "EMPTY"
          ELSE r.state : r \in get_last_report(o), v \in get_last_visit(o)}
  ELSE IF get_last_report(o) # {}
    THEN {r.state : r \in get_last_report(o)}
  ELSE {"UNKNOWN"}

\* DropPoint.get_visit_interval(), in seconds
get_visit_interval == 120 * 60

\* get_weight with a weight that depends on the state
get_weight_ByState(r) == IF r.state = "FULL" THEN 2 ELSE 1

\* Report.get_weight()
get_weight(r) == 1

\* `for report in new_reports: priority += report.get_weight()`
RECURSIVE AddWeights(_, _)
AddWeights(priority, rs) ==
  IF rs = <<>> THEN priority
  ELSE AddWeights(priority + get_weight(Head(rs)), Tail(rs))

\* SecondsSince with the operands of the difference exchanged
SecondsSince_Reversed(time) == (time - now) * TickSeconds

\* (datetime.today() - time).total_seconds()
SecondsSince(time) == (now - time) * TickSeconds

\* round(num / den, 2), in hundredths.  The code rounds a binary float: a
\* product that is exactly half way between two hundredths comes out just
\* above or just below it (0.005 is rounded to 0.01, and so is 0.015), so
\* both neighbours can be returned.
round2(num, den) ==
  LET q == (100 * num) \div den
      r == (100 * num) % den
  IN IF 2 * r < den THEN {q}
     ELSE IF 2 * r > den THEN {q + 1}
     ELSE {q, q + 1}

\* DropPoint.get_priority() from line 212 on, in hundredths: the running
\* priority is the fraction num / den
priority_of_present(o) ==
  UNION {
    LET p1 == AddWeights(1, get_new_reports(o))
        num2 == IF crates >= 1 THEN p1 * (10 + crates) ELSE p1
        den2 == IF crates >= 1 THEN 10 ELSE 1
        num3 == IF get_last_visit(o) # {}
                  THEN num2 * SecondsSince(last_visit_time(o))
                  ELSE num2 * 3
        den3 == IF get_last_visit(o) # {}
                  THEN den2 * get_visit_interval
                  ELSE den2
    IN round2(num3, den3) : crates \in get_current_crate_count(o)}

\* get_priority without the test of self.removed
get_priority_NoRemoved(o) == priority_of_present(o)

\* DropPoint.get_priority(), in hundredths
get_priority(o) ==
  IF dps[o].removed # None THEN {0} ELSE priority_of_present(o)

\* ---------------------------------------------------------------- inputs
NumberInputs == {0, 1, 2}

\* None, every instant of the clock, and an instant Tick never reaches
Future == MaxTime + 1

TimeInputs == {None} \cup (0 .. MaxTime)

\* a drop point is created as of now, or by mistake as of the future
CreateTimeInputs == {None, Future}

\* (description, lat, lng, level) as given to DropPoint and Location
LocationInputs ==
  { [description |-> "Hall A", lat |-> 45, lng |-> 10, level |-> 0],
    [description |-> NoDescription, lat |-> None, lng |-> None,
     level |-> None] }

\* a location that is valid
ValidLocation == [description |-> "Hall A", lat |-> 45, lng |-> 10, level |-> 0]

\* a location that is unknown: no description, no coordinates, no level
UnknownLocation ==
  [description |-> NoDescription, lat |-> None, lng |-> None, level |-> None]

\* a drop point is moved to a second place, or to one of the first
RelocateInputs ==
  LocationInputs
    \cup {[description |-> "Hall B", lat |-> -45, lng |-> -10, level |-> 1]}

CratesInputs == {None, -1, 0, 2}

\* None, where a state or an action is expected
Missing == "<None>"

StateInputs == {"FULL", "EMPTY", "BROKEN", Missing}

ActionInputs == {"EMPTIED", "NO_ACTION", "BROKEN", Missing}

\* --------------------------------------------------------------- actions
\* DropPoint_number_errors without the look-up of the number
DropPoint_number_errors_NoLookup(number) ==
     ErrIf(Raises(number), "number", "Drop point number is not a number.")
  \o ErrIf(~Raises(number) /\ number < 1,
           "number", "Drop point number is not positive.")

\* DropPoint.__init__(number, description, lat, lng, level, crates,
\* start_time): the object constructed is number Len(dps) + 1
DropPoint_number_errors(number) ==
     ErrIf(Raises(number), "number", "Drop point number is not a number.")
  \o ErrIf(~Raises(number) /\ number < 1,
           "number", "Drop point number is not positive.")
  \o ErrIf(~Raises(number) /\ Get(number) # {},
           "number", "That drop point already exists.")

\* the errors DropPoint.__init__ collects: its own, those of the Location
\* and those of the Capacity
DropPoint_errors(number, loc, crates, start_time) ==
     DropPoint_number_errors(number)
  \o Location_errors(<<>>, start_time, loc.description, loc.lat, loc.lng,
                     loc.level)
  \o Capacity_errors(<<>>, start_time, crates)

DropPoint_init(number, loc, crates, start_time) ==
  LET o == Len(dps) + 1
      locErrors == Location_errors(<<>>, start_time, loc.description,
                                   loc.lat, loc.lng, loc.level)
      capErrors == Capacity_errors(<<>>, start_time, crates)
      errors == DropPoint_errors(number, loc, crates, start_time)
  IN /\ locations' = Append(locations,
          IF locErrors = <<>>
            THEN <<Location_row(start_time, loc.description, loc.lat,
                                loc.lng, loc.level)>>
            ELSE <<>>)
     /\ capacities' = Append(capacities,
          IF capErrors = <<>> THEN <<Capacity_row(start_time, crates)>>
                              ELSE <<>>)
     /\ reports' = Append(reports, <<>>)
     /\ visits' = Append(visits, <<>>)
     /\ dps' = Append(dps,
          [number |-> IF Raises(number) THEN None ELSE number,
           removed |-> None, added |-> errors = <<>>])
     /\ UNCHANGED <<now, thr>>

\* Location(dp, start_time, description, lat, lng, level) for a drop point
\* that exists
Location_init(o, loc, start_time) ==
  LET errors == Location_errors(locations[o], start_time, loc.description,
                                loc.lat, loc.lng, loc.level)
  IN /\ locations' = [locations EXCEPT ![o] =
          IF errors = <<>>
            THEN Append(@, Location_row(start_time, loc.description,
                                        loc.lat, loc.lng, loc.level))
            ELSE @]
     /\ UNCHANGED <<now, dps, capacities, reports, visits, thr>>

\* Capacity(dp, start_time, crates) for a drop point that exists
Capacity_init(o, crates, start_time) ==
  LET errors == Capacity_errors(capacities[o], start_time, crates)
  IN /\ capacities' = [capacities EXCEPT ![o] =
          IF errors = <<>> THEN Append(@, Capacity_row(start_time, crates))
                           ELSE @]
     /\ UNCHANGED <<now, dps, locations, reports, visits, thr>>

\* DropPoint.remove(time)
\* remove_raises without the test of self.removed
remove_raises_Again(o, time) ==
  IF time # None /\ time > now THEN "ValueError" ELSE "none"

\* remove_raises without the test of the time
remove_raises_AnyTime(o, time) ==
  IF dps[o].removed # None THEN "RuntimeError" ELSE "none"

\* the outcome of DropPoint.remove(time): lines 111-118
remove_raises(o, time) ==
  IF dps[o].removed # None THEN "RuntimeError"
  ELSE IF time # None /\ time > now THEN "ValueError"
  ELSE "none"

\* remove that deletes the reports of the drop point it removes
remove_Purging(o, time) ==
  /\ dps' = IF remove_raises(o, time) = "none"
              THEN [dps EXCEPT ![o].removed =
                      IF time # None THEN time ELSE now]
              ELSE dps
  /\ reports' = IF remove_raises(o, time) = "none"
                  THEN [reports EXCEPT ![o] = <<>>]
                  ELSE reports
  /\ UNCHANGED <<now, locations, capacities, visits, thr>>

remove(o, time) ==
  /\ dps' = IF remove_raises(o, time) = "none"
              THEN [dps EXCEPT ![o].removed =
                      IF time # None THEN time ELSE now]
              ELSE dps
  /\ UNCHANGED <<now, locations, capacities, reports, visits, thr>>

\* DropPoint.report(state, time)
report(o, state, time) ==
  LET errors == Report_errors(time, state)
  IN /\ reports' = [reports EXCEPT ![o] =
          IF errors = <<>>
            THEN Append(@, [time |-> IF time # None THEN time ELSE now,
                            state |-> state])
            ELSE @]
     /\ UNCHANGED <<now, dps, locations, capacities, visits, thr>>

\* DropPoint.visit(action, time)
visit(o, action, time) ==
  LET errors == Visit_errors(time, action)
  IN /\ visits' = [visits EXCEPT ![o] =
          IF errors = <<>>
            THEN Append(@, [time |-> IF time # None THEN time ELSE now,
                            action |-> action])
            ELSE @]
     /\ UNCHANGED <<now, dps, locations, capacities, reports, thr>>

\* the clock advances
Tick ==
  /\ now < MaxTime
  /\ now' = now + 1
  /\ UNCHANGED <<dps, locations, capacities, reports, visits, thr>>

Create ==
  /\ SessionSize + 2 <= MaxSession
  /\ \E number \in NumberInputs, loc \in LocationInputs, crates \in CratesInputs,
     start_time \in CreateTimeInputs :
    DropPoint_init(number, loc, crates, start_time)

Relocate ==
  /\ SessionSize < MaxSession
  /\ \E o \in Added, loc \in RelocateInputs, start_time \in TimeInputs :
    Location_init(o, loc, start_time)

Recapacitate ==
  /\ SessionSize < MaxSession
  /\ \E o \in Added, crates \in CratesInputs, start_time \in TimeInputs :
    Capacity_init(o, crates, start_time)

Remove == \E o \in Added, time \in TimeInputs : remove(o, time)

Report ==
  /\ SessionSize < MaxSession
  /\ \E o \in Added, state \in StateInputs, time \in TimeInputs :
    report(o, state, time)

Visit ==
  /\ SessionSize < MaxSession
  /\ \E o \in Added, action \in ActionInputs, time \in TimeInputs :
    visit(o, action, time)

Next ==
  \/ Create
  \/ Relocate
  \/ Recapacitate
  \/ Remove
  \/ Report
  \/ Visit
  \/ Tick

Spec == Init /\ [][Next]_vars

\* ------------------------------------------- DropPoint.__init__ by steps
\* Two requests construct drop points at the same time.  Each statement of
\* DropPoint.__init__ that reads or writes the session is one step.

\* the call begins: the object exists, nothing is known of it yet
Begin(t, number, loc, crates, start_time) ==
  /\ thr[t].pc = "idle"
  /\ dps' = Append(dps, [number |-> None, removed |-> None, added |-> FALSE])
  /\ locations' = Append(locations, <<>>)
  /\ capacities' = Append(capacities, <<>>)
  /\ reports' = Append(reports, <<>>)
  /\ visits' = Append(visits, <<>>)
  /\ thr' = [thr EXCEPT ![t] =
       [pc |-> "number", o |-> Len(dps) + 1, number |-> number, loc |-> loc,
        crates |-> crates, start_time |-> start_time, errors |-> <<>>]]
  /\ UNCHANGED now

\* lines 71-79: self.number is set and looked up in the session
CheckNumber(t) ==
  /\ thr[t].pc = "number"
  /\ dps' = [dps EXCEPT ![thr[t].o].number =
       IF Raises(thr[t].number) THEN None ELSE thr[t].number]
  /\ thr' = [thr EXCEPT ![t].pc = "location",
                        ![t].errors = DropPoint_number_errors(thr[t].number)]
  /\ UNCHANGED <<now, locations, capacities, reports, visits>>

\* MakeLocation that keeps the errors of the Location alone
MakeLocation_Overwrite(t) ==
  LET a == thr[t]
      errors == Location_errors(locations[a.o], a.start_time,
                  a.loc.description, a.loc.lat, a.loc.lng, a.loc.level)
  IN /\ a.pc = "location"
     /\ locations' = [locations EXCEPT ![a.o] =
          IF errors = <<>>
            THEN Append(@, Location_row(a.start_time, a.loc.description,
                                        a.loc.lat, a.loc.lng, a.loc.level))
            ELSE @]
     /\ thr' = [thr EXCEPT ![t].pc = "capacity",
                           ![t].errors = errors]
     /\ UNCHANGED <<now, dps, capacities, reports, visits>>

\* lines 81-92: the first Location
MakeLocation(t) ==
  LET a == thr[t]
      errors == Location_errors(locations[a.o], a.start_time,
                  a.loc.description, a.loc.lat, a.loc.lng, a.loc.level)
  IN /\ a.pc = "location"
     /\ locations' = [locations EXCEPT ![a.o] =
          IF errors = <<>>
            THEN Append(@, Location_row(a.start_time, a.loc.description,
                                        a.loc.lat, a.loc.lng, a.loc.level))
            ELSE @]
     /\ thr' = [thr EXCEPT ![t].pc = "capacity",
                           ![t].errors = @ \o errors]
     /\ UNCHANGED <<now, dps, capacities, reports, visits>>

\* lines 94-102: the first Capacity
MakeCapacity(t) ==
  LET a == thr[t]
      errors == Capacity_errors(capacities[a.o], a.start_time, a.crates)
  IN /\ a.pc = "capacity"
     /\ capacities' = [capacities EXCEPT ![a.o] =
          IF errors = <<>> THEN Append(@, Capacity_row(a.start_time, a.crates))
                           ELSE @]
     /\ thr' = [thr EXCEPT ![t].pc = "finish",
                           ![t].errors = @ \o errors]
     /\ UNCHANGED <<now, dps, locations, reports, visits>>

\* lines 104-107: raise ValueError(errors), or db.session.add(self)
Finish(t) ==
  /\ thr[t].pc = "finish"
  /\ dps' = [dps EXCEPT ![thr[t].o].added = thr[t].errors = <<>>]
  /\ thr' = [thr EXCEPT ![t].pc = Raised(thr[t].errors)]
  /\ UNCHANGED <<now, locations, capacities, reports, visits>>

BeginCreate ==
  /\ SessionSize + 2 <= MaxSession
  /\ \E t \in Threads, number \in NumberInputs, loc \in LocationInputs,
        crates \in CratesInputs, start_time \in CreateTimeInputs :
       Begin(t, number, loc, crates, start_time)

StepNumber == \E t \in Threads : CheckNumber(t)

StepLocation == \E t \in Threads : MakeLocation(t)

StepCapacity == \E t \in Threads : MakeCapacity(t)

StepFinish == \E t \in Threads : Finish(t)

NextRace ==
  \/ BeginCreate
  \/ StepNumber
  \/ StepLocation
  \/ StepCapacity
  \/ StepFinish

SpecRace == Init /\ [][NextRace]_vars

\* ------------------------------------- one DropPoint.__init__ at a time
\* One request after the other constructs a drop point, from inputs of
\* which any can be invalid.

\* a description of max_description + 1 characters
LongDescription ==
  "Hall A, behind the second staircase on the left, Hall A, behind the second staircase on the left, Hall A, behind the second staircase on the "

CtorNumberInputs == {NotANumber, 0, 1}

CtorLocationInputs ==
  [description : {"Hall A", LongDescription}, lat : {NotANumber, 45, 95},
   lng : {10, 200}, level : {NotANumber, 0}]

CtorCratesInputs == {NotANumber, -1, 2}

CtorBegin ==
  /\ SessionSize + 2 <= MaxSession
  /\ \E number \in CtorNumberInputs, loc \in CtorLocationInputs,
        crates \in CtorCratesInputs, start_time \in CreateTimeInputs :
       Begin(1, number, loc, crates, start_time)

CtorNumber == CheckNumber(1)

CtorLocation == MakeLocation(1)

CtorCapacity == MakeCapacity(1)

CtorFinish == Finish(1)

\* the call has returned, or raised, and the next request can come
CtorReturn ==
  /\ thr[1].pc \in {"none", "ValueError"}
  /\ thr' = [thr EXCEPT ![1] = Idle]
  /\ UNCHANGED <<now, dps, locations, capacities, reports, visits>>

NextCtor ==
  \/ CtorBegin
  \/ CtorNumber
  \/ CtorLocation
  \/ CtorCapacity
  \/ CtorFinish
  \/ CtorReturn
  \/ Tick

SpecCtor == Init /\ [][NextCtor]_vars

\* ------------------------------------------ Location, Capacity by steps
\* Two requests append to the timelines of drop points at the same time.
\* Location.__init__ and Capacity.__init__ read the timeline and the clock
\* while they check the start time (lines 335-342, 434-441), and add the
\* row at their end (lines 376, 457); nothing holds the timeline between
\* the two.

\* the appends that have begun and not ended
InFlight ==
  Cardinality({t \in Threads : thr[t].pc \notin {"idle", "none", "ValueError"}})

AppendBegin(t, o, cls, loc, crates, start_time) ==
  /\ thr[t].pc = "idle"
  /\ thr' = [thr EXCEPT ![t] =
       [pc |-> "check" \o cls, o |-> o, number |-> None, loc |-> loc,
        crates |-> crates, start_time |-> start_time, errors |-> <<>>]]
  /\ UNCHANGED <<now, dps, locations, capacities, reports, visits>>

\* lines 325-374 of Location.__init__: the errors are collected from the
\* timeline as it is now, and self.start_time is set from the clock
LocationCheck(t) ==
  LET a == thr[t]
  IN /\ a.pc = "checkLocation"
     /\ thr' = [thr EXCEPT
          ![t].pc = "addLocation",
          ![t].start_time = StartTimeOf(a.start_time),
          ![t].errors = Location_errors(locations[a.o], a.start_time,
                          a.loc.description, a.loc.lat, a.loc.lng,
                          a.loc.level)]
     /\ UNCHANGED <<now, dps, locations, capacities, reports, visits>>

\* lines 373-376: raise ValueError(errors), or db.session.add(self)
LocationAdd(t) ==
  LET a == thr[t]
  IN /\ a.pc = "addLocation"
     /\ locations' = [locations EXCEPT ![a.o] =
          IF a.errors = <<>>
            THEN Append(@, [start_time |-> a.start_time,
                            description |-> str(a.loc.description),
                            lat |-> a.loc.lat, lng |-> a.loc.lng,
                            level |-> a.loc.level])
            ELSE @]
     /\ thr' = [thr EXCEPT ![t].pc = Raised(a.errors)]
     /\ UNCHANGED <<now, dps, capacities, reports, visits>>

\* lines 426-455 of Capacity.__init__
CapacityCheck(t) ==
  LET a == thr[t]
  IN /\ a.pc = "checkCapacity"
     /\ thr' = [thr EXCEPT
          ![t].pc = "addCapacity",
          ![t].start_time = StartTimeOf(a.start_time),
          ![t].errors = Capacity_errors(capacities[a.o], a.start_time,
                                        a.crates)]
     /\ UNCHANGED <<now, dps, locations, capacities, reports, visits>>

\* lines 454-457
CapacityAdd(t) ==
  LET a == thr[t]
  IN /\ a.pc = "addCapacity"
     /\ capacities' = [capacities EXCEPT ![a.o] =
          IF a.errors = <<>>
            THEN Append(@, [start_time |-> a.start_time,
                            crates |-> IF a.crates = None
                                         THEN default_crate_count
                                         ELSE a.crates])
            ELSE @]
     /\ thr' = [thr EXCEPT ![t].pc = Raised(a.errors)]
     /\ UNCHANGED <<now, dps, locations, reports, visits>>

\* the drop points the appends are made to
AppendCreate ==
  /\ dps = <<>>
  /\ \E number \in {1}, crates \in {None, 0} :
       DropPoint_init(number, ValidLocation, crates, None)

BeginLocation ==
  /\ SessionSize + InFlight < MaxSession
  /\ \E t \in Threads, o \in Added, loc \in RelocateInputs,
        start_time \in TimeInputs :
       AppendBegin(t, o, "Location", loc, None, start_time)

BeginCapacity ==
  /\ SessionSize + InFlight < MaxSession
  /\ \E t \in Threads, o \in Added, crates \in CratesInputs,
        start_time \in TimeInputs :
       AppendBegin(t, o, "Capacity", UnknownLocation, crates, start_time)

StepLocationCheck == \E t \in Threads : LocationCheck(t)

StepLocationAdd == \E t \in Threads : LocationAdd(t)

StepCapacityCheck == \E t \in Threads : CapacityCheck(t)

StepCapacityAdd == \E t \in Threads : CapacityAdd(t)

NextAppend ==
  \/ AppendCreate
  \/ BeginLocation
  \/ BeginCapacity
  \/ StepLocationCheck
  \/ StepLocationAdd
  \/ StepCapacityCheck
  \/ StepCapacityAdd
  \/ Tick

SpecAppend == Init /\ [][NextAppend]_vars

\* ================================================================ claims
Has(errors, field, message) == Err(field, message) \in Range(errors)

\* C1: creation is unique per number.  No two drop points in the session
\* have the same number; creating a drop point with a number that is in the
\* session, removed or not, fails with "That drop point already exists.";
\* and creating one with a positive number that is not in the session, a
\* valid location and a valid crate count succeeds.
C1_UniquePerNumber ==
  /\ \A o1, o2 \in Added : dps[o1].number = dps[o2].number => o1 = o2
  /\ \A number \in NumberInputs :
       /\ (\E o \in Added : dps[o].number = number)
            => \A loc \in LocationInputs, crates \in {None, -1},
                  start_time \in CreateTimeInputs :
                 Has(DropPoint_errors(number, loc, crates, start_time),
                     "number", "That drop point already exists.")
       /\ (number >= 1 /\ \A o \in Added : dps[o].number # number)
            => \A crates \in {None, 0, 2} :
                 Raised(DropPoint_errors(number, ValidLocation, crates, None))
                   = "none"

\* C1 witness: a drop point was removed, and the constructor has been
\* called with its number again and has failed
C1_Witness ==
  \E o1 \in Added, o2 \in DOMAIN dps :
    /\ dps[o1].removed # None
    /\ o2 > o1
    /\ dps[o2].number = dps[o1].number
    /\ ~dps[o2].added

\* C1 witness of the other case is the state C1_TwoNumbers: two drop points
\* with different numbers are in the session
C1_TwoNumbers ==
  \E o1, o2 \in Added : dps[o1].number # dps[o2].number

\* C2 (as claimed): when two constructor calls with the same number, a valid
\* location and a valid crate count have both returned, one has succeeded
\* and the other has raised ValueError with "That drop point already
\* exists.", and one drop point with that number is in the session.
C2_ExactlyOneSucceeds ==
  (/\ thr[1].pc \in {"none", "ValueError"}
   /\ thr[2].pc \in {"none", "ValueError"}
   /\ thr[1].number = thr[2].number
   /\ thr[1].number >= 1
   /\ \A t \in Threads :
        /\ thr[t].loc = ValidLocation
        /\ thr[t].crates \in {None, 0, 2}
        /\ thr[t].start_time = None)
  => /\ \E t \in Threads :
          /\ thr[t].pc = "none"
          /\ thr[3 - t].pc = "ValueError"
          /\ Has(thr[3 - t].errors, "number",
                 "That drop point already exists.")
     /\ Cardinality({o \in Added : dps[o].number = thr[1].number}) <= 1

\* C3 (as claimed): a DropPoint constructor call that failed has left no
\* Location and no Capacity in the session.
C3_FailedCreationStoresNothing ==
  \A o \in DOMAIN dps :
    ~dps[o].added => locations[o] = <<>> /\ capacities[o] = <<>>

\* a timeline in the order of insertion does not go back in time
NonDecreasing(rows) ==
  \A i, j \in DOMAIN rows : i <= j => rows[i].start_time <= rows[j].start_time

\* the timeline grew by one row, or not at all
Grew(old, new) == new = old \/ (Len(new) = Len(old) + 1 /\ SubSeq(new, 1, Len(old)) = old)

\* C4: the location and the capacity timeline of every drop point are
\* non-decreasing in start time in the order of insertion.  An append with
\* a start time earlier than that of the last row inserted is rejected
\* ("older than current"), one with a start time equal to it and not in
\* the future passes the checks on the start time, and no step changes a
\* timeline but by adding one row at its end that is not older than the
\* rows there.
C4_TimelineInv ==
  \A o \in DOMAIN dps :
    /\ NonDecreasing(locations[o])
    /\ NonDecreasing(capacities[o])
    /\ \A start_time \in 0 .. MaxTime :
         /\ (locations[o] # <<>>
               /\ start_time < locations[o][Len(locations[o])].start_time)
              => \A loc \in LocationInputs :
                   Has(Location_errors(locations[o], start_time,
                         loc.description, loc.lat, loc.lng, loc.level),
                       "Location", "Location older than current.")
         /\ (capacities[o] # <<>>
               /\ start_time < capacities[o][Len(capacities[o])].start_time)
              => \A crates \in CratesInputs :
                   Has(Capacity_errors(capacities[o], start_time, crates),
                       "Capacity", "Capacity older than current.")
         /\ (locations[o] # <<>> /\ start_time <= now
               /\ start_time = locations[o][Len(locations[o])].start_time)
              => StartTimeErrors("Location", locations[o], start_time) = <<>>
         /\ (capacities[o] # <<>> /\ start_time <= now
               /\ start_time = capacities[o][Len(capacities[o])].start_time)
              => StartTimeErrors("Capacity", capacities[o], start_time) = <<>>

C4_TimelineStep ==
  \A o \in DOMAIN dps :
    /\ Grew(locations[o], locations'[o])
    /\ Grew(capacities[o], capacities'[o])
    /\ NonDecreasing(locations'[o])
    /\ NonDecreasing(capacities'[o])

C4_Timelines == []C4_TimelineInv /\ [][C4_TimelineStep]_vars

\* C4 witness: a timeline holds a row appended with the start time of the
\* row before it, the clock having moved on, so that an earlier start time
\* was there to be given and a later one too
C4_Witness ==
  \E o \in Added :
    /\ Len(locations[o]) = 2
    /\ locations[o][1].start_time = locations[o][2].start_time
    /\ locations[o][2].start_time < now

\* C5: removal is one-way and happens at most once.  remove() on a removed
\* drop point raises the "already removed" RuntimeError whatever the time
\* given; on a drop point that is not removed it succeeds unless the time
\* given is in the future; and no step changes a removal time that is set.
C5_RemoveInv ==
  \A o \in Added, time \in TimeInputs \cup {Future} :
    /\ dps[o].removed # None => remove_raises(o, time) = "RuntimeError"
    /\ remove_raises(o, time) = "none" => dps[o].removed = None
    /\ (dps[o].removed = None /\ (time = None \/ time <= now))
         => remove_raises(o, time) = "none"

C5_RemoveStep ==
  \A o \in DOMAIN dps :
    dps[o].removed # None => dps'[o].removed = dps[o].removed

C5_RemovedOnce == []C5_RemoveInv /\ [][C5_RemoveStep]_vars

\* C5 witness: a drop point was removed, the clock has moved on since, and
\* a report was logged against it after that
C5_Witness ==
  \E o \in Added :
    /\ dps[o].removed # None
    /\ dps[o].removed < now
    /\ \E r \in Range(reports[o]) : r.time > dps[o].removed

\* C6: the priority of a removed drop point is 0.
C6_RemovedPriorityZero ==
  \A o \in Added : dps[o].removed # None => get_priority(o) = {0}

\* C6 witness: a removed drop point that has crates, reports and no visit,
\* whose priority would be 6.6 or more were it not removed
C6_Witness ==
  \E o \in Added :
    /\ dps[o].removed # None
    /\ reports[o] # <<>>
    /\ visits[o] = <<>>
    /\ \E c \in get_current_crate_count(o) : c >= 1

\* C7: the new report count is the number of reports that are strictly
\* newer than every visit of the drop point: the reports newer than the
\* latest visit, and all of them when there is no visit.
C7_NewReportCount ==
  \A o \in Added :
    /\ get_new_report_count(o) =
         Cardinality({i \in DOMAIN reports[o] :
            \A j \in DOMAIN visits[o] : reports[o][i].time > visits[o][j].time})
    /\ visits[o] = <<>> => get_new_report_count(o) = Len(reports[o])

\* C7 witness: a drop point with a visit and a report of the very time of
\* the visit, logged after it: the report is not new
C7_Witness ==
  \E o \in Added :
    /\ visits[o] # <<>>
    /\ reports[o] # <<>>
    /\ reports[o][1].time = visits[o][1].time
    /\ reports[o][1].time < now
    /\ get_new_report_count(o) = 0

\* C7 witness of the other case is the state C7_Newer: a report newer than
\* the visit is counted
C7_Newer ==
  \E o \in Added :
    /\ visits[o] # <<>>
    /\ \E r \in Range(reports[o]) : r.time > visits[o][1].time
    /\ get_new_report_count(o) = 1

\* the greatest time of a log that is not empty
MaxTimeOf(log) == CHOOSE t \in {e.time : e \in Range(log)} :
                    \A e \in Range(log) : e.time <= t

LatestStates(o) ==
  {reports[o][i].state : i \in {i \in DOMAIN reports[o] :
                                  reports[o][i].time = MaxTimeOf(reports[o])}}

LatestActions(o) ==
  {visits[o][i].action : i \in {i \in DOMAIN visits[o] :
                                  visits[o][i].time = MaxTimeOf(visits[o])}}

\* C8: with a report and a visit, the last state is "EMPTY" by the visit
\* when the latest visit is later than the latest report and its action is
\* "EMPTIED", and the state of the latest report in every other case; with
\* reports and no visit it is the state of the latest report; with neither
\* it is "UNKNOWN".  (Among visits, or reports, of the same latest time it
\* is one of them that decides.)
C8_LastState ==
  \A o \in Added :
    /\ (reports[o] = <<>> /\ visits[o] = <<>>)
         => get_last_state(o) = {"UNKNOWN"}
    /\ (reports[o] # <<>> /\ visits[o] = <<>>)
         => get_last_state(o) = LatestStates(o)
    /\ (reports[o] # <<>> /\ visits[o] # <<>>)
         => LET later == MaxTimeOf(visits[o]) > MaxTimeOf(reports[o])
            IN /\ (later /\ LatestActions(o) = {"EMPTIED"})
                    => get_last_state(o) = {"EMPTY"}
               /\ (~later \/ "EMPTIED" \notin LatestActions(o))
                    => get_last_state(o) = LatestStates(o)
               /\ get_last_state(o) \subseteq LatestStates(o) \cup {"EMPTY"}
               /\ get_last_state(o) # {}

\* C8 witness: a report "FULL" and a later visit "EMPTIED": the state is
\* "EMPTY" by the visit
C8_Witness ==
  \E o \in Added :
    /\ reports[o] # <<>>
    /\ visits[o] # <<>>
    /\ LatestStates(o) = {"FULL"}
    /\ get_last_state(o) = {"EMPTY"}

\* C8 witness of the other case is the state C8_SameTime: a report "FULL"
\* and a visit "EMPTIED" of the same time: the state is that of the report
C8_SameTime ==
  \E o \in Added :
    /\ reports[o] # <<>>
    /\ visits[o] # <<>>
    /\ MaxTimeOf(visits[o]) = MaxTimeOf(reports[o])
    /\ LatestActions(o) = {"EMPTIED"}
    /\ get_last_state(o) = {"FULL"}

Abs(x) == IF x >= 0 THEN x ELSE -x

\* p hundredths is num / den rounded to two decimals
Rounded(p, num, den) == 2 * Abs(100 * num - p * den) <= den

\* the reports of the drop point that are newer than each of its visits
NewCount(o) ==
  Cardinality({i \in DOMAIN reports[o] :
     \A j \in DOMAIN visits[o] : reports[o][i].time > visits[o][j].time})

C9_Visited ==
  \E o \in Added :
    /\ dps[o].removed = None
    /\ visits[o] # <<>>
    /\ get_new_report_count(o) = 1
    /\ \E p \in get_priority(o) : p > 0

\* a step in which time passes for a visited drop point that is not
\* removed, its reports, visits and crates as they were
Neglected(o) ==
  /\ o \in Added
  /\ dps[o].removed = None
  /\ visits[o] # <<>>
  /\ now' > now
  /\ UNCHANGED <<dps, capacities, reports, visits>>

\* C10 (as claimed): when time passes, the priority strictly increases.
C10_StrictStep ==
  \A o \in DOMAIN dps :
    Neglected(o) =>
      \A p \in get_priority(o), q \in (get_priority(o))' : q > p

C10_StrictlyMonotone == [][C10_StrictStep]_vars

\* C10 (amended): when time passes, the priority does not decrease.
C10_MonotoneStep ==
  \A o \in DOMAIN dps :
    Neglected(o) =>
      \A p \in get_priority(o), q \in (get_priority(o))' : q >= p

C10_Monotone == [][C10_MonotoneStep]_vars

\* C10 witness: time has passed since the latest visit of a drop point that
\* is not removed, and its priority has grown above 0
C10_Witness ==
  \E o \in Added :
    /\ dps[o].removed = None
    /\ visits[o] # <<>>
    /\ MaxTimeOf(visits[o]) < now
    /\ \A p \in get_priority(o) : p > 0

\* ------------------------------------------------ the clock runs on alone
\* Nothing is done for a long while: the clock advances by four visit
\* intervals, more than the factor 3 of a drop point never visited stands
\* for.
NeglectTicks == (4 * get_visit_interval) \div TickSeconds

Neglect ==
  /\ now >= MaxTime
  /\ now < MaxTime + MaxNeglect * NeglectTicks
  /\ now' = now + NeglectTicks
  /\ UNCHANGED <<dps, locations, capacities, reports, visits, thr>>

NextLive ==
  \/ Next
  \/ Neglect

\* datetime.today() does not stand still
SpecLive == Init /\ [][NextLive]_vars /\ WF_vars(Tick) /\ WF_vars(Neglect)

\* the DropPoint objects a session of MaxSession can hold
ObjectIds == 1 .. (MaxSession \div 2)

\* the priorities of drop points with no report and no visit, by crates
GivenPriorities == {300} \cup {30 * (10 + c) : c \in {default_crate_count, 2}}

\* before the long wait, drop point o is in the session, not removed, with
\* k visits logged, and another drop point has the priority P
Waiting(o, k, P) ==
  /\ now <= MaxTime
  /\ o \in Added
  /\ dps[o].removed = None
  /\ Len(visits[o]) = k
  /\ \E o2 \in Added \ {o} : P \in get_priority(o2)

\* drop point o has been removed, or visited once more, or its priority is
\* above P
Surfaced(o, k, P) ==
  \/ o \in Added /\ dps[o].removed # None
  \/ o \in Added /\ Len(visits[o]) > k
  \/ o \in Added /\ \A p \in get_priority(o) : p > P

\* C11 (as claimed): every drop point that is not removed, visited or not,
\* surfaces: whatever priority another drop point has, the priority of the
\* drop point exceeds it in the end, unless it is removed or visited first.
C11_EventuallySurfaces ==
  \A o \in ObjectIds, k \in 0 .. 1, P \in GivenPriorities :
    Waiting(o, k, P) ~> Surfaced(o, k, P)

\* the part of C11 that the code does: a drop point that was visited before
\* the long wait surfaces
C11_VisitedSurfaces ==
  \A o \in ObjectIds, P \in GivenPriorities :
    (o \in Added /\ dps[o].removed = None /\ Len(visits[o]) = 1
       /\ visits[o][1].time <= MaxTime)
      ~> Surfaced(o, 1, P)

\* why: no passing of time changes the priority of a drop point that was
\* never visited
C11_NeverVisitedConstant ==
  [][\A o \in DOMAIN dps :
       (o \in Added /\ visits[o] = <<>> /\ now' > now
          /\ UNCHANGED <<dps, capacities, reports, visits>>)
         => (get_priority(o))' = get_priority(o)]_vars

\* C12 (as claimed): a drop point whose location is unknown is
\* constructible.  Creating a drop point with a free positive number and no
\* description, coordinates or level succeeds, and so does appending such a
\* location to a drop point, or one with a description and coordinates and
\* no level.
C12_UnknownLocationConstructible ==
  /\ \A number \in NumberInputs :
       (number >= 1 /\ Get(number) = {})
         => Raised(DropPoint_errors(number, UnknownLocation, None, None))
              = "none"
  /\ \A o \in Added :
       /\ Raised(Location_errors(locations[o], None, NoDescription, None,
                                 None, None)) = "none"
       /\ Raised(Location_errors(locations[o], None, "Hall A", 45, 10, None))
            = "none"

\* what the code does with it: every such call raises, with an entry for
\* lat, lng and level when none is given and for level when it alone is
\* missing, and a drop point constructed so is not in the session
C12_UnknownLocationRejected ==
  /\ \A number \in NumberInputs, crates \in CratesInputs :
       LET errors == DropPoint_errors(number, UnknownLocation, crates, None)
       IN /\ Has(errors, "lat", "Latitude is not a floating point number.")
          /\ Has(errors, "lng", "Longitude is not a floating point number.")
          /\ Has(errors, "level", "Building level is not a number.")
  /\ \A o \in DOMAIN dps :
       Location_errors(locations[o], None, "Hall A", 45, 10, None)
         = <<Err("level", "Building level is not a number.")>>
  /\ \A o \in Added :
       \A r \in Range(locations[o]) :
         r.lat # None /\ r.lng # None /\ r.level # None

\* the entry get_current_location() returns has the values of loc
ReadsBack(rows, loc) ==
  /\ rows # {}
  /\ \A r \in rows :
       /\ r.description = loc.description
       /\ r.lat = loc.lat
       /\ r.lng = loc.lng
       /\ r.level = loc.level

\* a second valid location, to tell a new entry from the one before it
OtherLocation == [description |-> "Hall B", lat |-> -45, lng |-> -10, level |-> 1]

\* the step is a successful creation with loc and crates, and the accessors
\* of the new drop point return them
CreationReadsBack(number, loc, crates) ==
  (DropPoint_init(number, loc, crates, None)
     /\ DropPoint_errors(number, loc, crates, None) = <<>>)
    => \A o \in ObjectIds :
         o = Len(dps) + 1
           => /\ ReadsBack((get_current_location(o))', loc)
              /\ (get_current_crate_count(o))' = {crates}

\* the step is a successful append of a location, and get_current_location
\* returns its values
LocationReadsBack(o, loc, start_time) ==
  (Location_init(o, loc, start_time)
     /\ Location_errors(locations[o], start_time, loc.description, loc.lat,
                        loc.lng, loc.level) = <<>>)
    => ReadsBack((get_current_location(o))', loc)

\* the step is a successful append of a capacity, and
\* get_current_crate_count returns its crates
CapacityReadsBack(o, crates, start_time) ==
  (Capacity_init(o, crates, start_time)
     /\ Capacity_errors(capacities[o], start_time, crates) = <<>>)
    => (get_current_crate_count(o))' = {crates}

\* C13 (as claimed): round trip.  After a successful creation with a valid
\* description, lat, lng, level and crates, 0 included,
\* get_current_location() returns an entry with those values and
\* get_current_crate_count() returns crates; after a successful append of a
\* location or a capacity the accessors return the values appended.
C13_RoundTripStep ==
  /\ \A number \in NumberInputs, crates \in {0, 2} :
       CreationReadsBack(number, ValidLocation, crates)
  /\ \A o \in Added, start_time \in TimeInputs :
       /\ \A loc \in {ValidLocation, OtherLocation} :
            LocationReadsBack(o, loc, start_time)
       /\ \A crates \in {0, 2} : CapacityReadsBack(o, crates, start_time)

C13_RoundTrip == [][C13_RoundTripStep]_vars

\* what the code does: the round trip holds for a creation, and for an
\* append with a start time later than that of every entry before it
C13_LaterStep ==
  /\ \A number \in NumberInputs, crates \in {0, 2} :
       CreationReadsBack(number, ValidLocation, crates)
  /\ \A o \in Added, start_time \in TimeInputs :
       /\ (\A r \in Range(locations[o]) :
             r.start_time < StartTimeOf(start_time))
            => \A loc \in {ValidLocation, OtherLocation} :
                 LocationReadsBack(o, loc, start_time)
       /\ (\A r \in Range(capacities[o]) :
             r.start_time < StartTimeOf(start_time))
            => \A crates \in {0, 2} : CapacityReadsBack(o, crates, start_time)

C13_RoundTripLater == [][C13_LaterStep]_vars

\* the fields a ValueError has entries for
Keys(errors) == {e[1] : e \in Range(errors)}

\* latitudes and longitudes out of range, the boundary values among them
LatOutOfRange == {-95, -90, 90, 95}

LngOutOfRange == {-200, -180, 180, 200}

\* the location timelines a Location can be constructed for: that of a new
\* drop point and those of the drop points there are
Timelines == {<<>>} \cup {locations[o] : o \in DOMAIN dps}

\* C14 (as claimed): a coordinate out of range is an error of its own
\* field.  A Location with a latitude that is not strictly between -90 and
\* 90 raises with an entry for lat; one with a valid latitude and a
\* longitude that is not strictly between -180 and 180 raises with an entry
\* for lng and none for lat.
C14_RangeErrorsNameTheirField ==
  \A rows \in Timelines :
    /\ \A lat \in LatOutOfRange :
         LET errors == Location_errors(rows, None, "Hall A", lat, 10, 0)
         IN Raised(errors) = "ValueError" /\ "lat" \in Keys(errors)
    /\ \A lng \in LngOutOfRange :
         LET errors == Location_errors(rows, None, "Hall A", 45, lng, 0)
         IN /\ Raised(errors) = "ValueError"
            /\ "lng" \in Keys(errors)
            /\ "lat" \notin Keys(errors)

\* what the code does: both are rejected, the boundary values too, and the
\* entry for a longitude out of range has the key lat
C14_LongitudeKeyedLat ==
  \A rows \in Timelines :
    /\ \A lat \in LatOutOfRange :
         Location_errors(rows, None, "Hall A", lat, 10, 0)
           = <<Err("lat", "Latitude is not between 90 degrees N/S.")>>
    /\ \A lng \in LngOutOfRange :
         Location_errors(rows, None, "Hall A", 45, lng, 0)
           = <<Err("lat", "Longitude is not between 180 degrees W/E.")>>
    /\ \A lat \in {-89, 89}, lng \in {-179, 179} :
         Location_errors(rows, None, "Hall A", lat, lng, 0) = <<>>

\* the messages a ValueError has entries with
Messages(errors) == {e[2] : e \in Range(errors)}

\* the inputs of the constructor call of thread 1 that are invalid, each
\* with the key of its entries, or the messages one of which it is to have
NumberViolated(a) ==
  \/ Raises(a.number)
  \/ a.number < 1
  \/ \E o \in Added \ {a.o} : dps[o].number = a.number

LatViolated(a) == Raises(a.loc.lat) \/ ~(-90 < a.loc.lat /\ a.loc.lat < 90)

LngViolated(a) == Raises(a.loc.lng) \/ ~(-180 < a.loc.lng /\ a.loc.lng < 180)

LevelViolated(a) == Raises(a.loc.level)

DescriptionViolated(a) == Len(a.loc.description) > max_description

CratesViolated(a) == Raises(a.crates) \/ a.crates < 0

StartTimeViolated(a) == a.start_time # None /\ a.start_time > now

LongitudeMessages ==
  {"Longitude is not a floating point number.",
   "Longitude is not between 180 degrees W/E."}

C15_Taken ==
  LET a == thr[1]
  IN /\ a.pc = "ValueError"
     /\ a.number >= 1
     /\ Keys(a.errors) = {"number", "crates"}

\* the time given is in the future
InFuture(time) == time # None /\ time > now

\* the log of one drop point has grown by one entry, the logs of the others
\* are as they were
OneAppended(old, new) ==
  \E o \in Added :
    /\ Len(new[o]) = Len(old[o]) + 1
    /\ SubSeq(new[o], 1, Len(old[o])) = old[o]
    /\ \A q \in DOMAIN dps \ {o} : new[q] = old[q]

\* the step is the call report(state, time) on drop point o: the call has
\* not raised, and the entry appended has the state and the time given
ReportAsClaimed(o, state, time) ==
  report(o, state, time) =>
    /\ ~InFuture(time)
    /\ state \in Range(report_states)
    /\ reports'[o][Len(reports'[o])] =
         [time |-> IF time = None THEN now ELSE time, state |-> state]

\* the same of visit(action, time)
VisitAsClaimed(o, action, time) ==
  visit(o, action, time) =>
    /\ ~InFuture(time)
    /\ action \in Range(visit_actions)
    /\ visits'[o][Len(visits'[o])] =
         [time |-> IF time = None THEN now ELSE time, action |-> action]

\* a step that changes the report log of a drop point there is appends one
\* entry to it, as report() was called, and leaves the visit logs; and the
\* same of the visit log
C16_LogStep ==
  /\ (reports' # reports /\ Len(dps') = Len(dps))
       => /\ OneAppended(reports, reports')
          /\ visits' = visits
          /\ \A o \in Added, time \in TimeInputs \cup {Future},
                state \in StateInputs :
               ReportAsClaimed(o, state, time)
  /\ (visits' # visits /\ Len(dps') = Len(dps))
       => /\ OneAppended(visits, visits')
          /\ reports' = reports
          /\ \A o \in Added, time \in TimeInputs \cup {Future},
                action \in ActionInputs :
               VisitAsClaimed(o, action, time)

\* the calls that raise are those C16 says, and no entry of a log has a
\* state, or an action, that is not of the enumeration, or a time that was
\* in the future when it was logged
C16_LogInv ==
  /\ \A time \in TimeInputs \cup {Future} :
       /\ \A state \in StateInputs :
            Raised(Report_errors(time, state)) = "ValueError"
              <=> (InFuture(time) \/ state \notin Range(report_states))
       /\ \A action \in ActionInputs :
            Raised(Visit_errors(time, action)) = "ValueError"
              <=> (InFuture(time) \/ action \notin Range(visit_actions))
  /\ \A o \in DOMAIN dps :
       /\ \A r \in Range(reports[o]) :
            r.state \in Range(report_states) /\ r.time <= now
       /\ \A v \in Range(visits[o]) :
            v.action \in Range(visit_actions) /\ v.time <= now

Kept(old, new) ==
  /\ Len(new) >= Len(old)
  /\ SubSeq(new, 1, Len(old)) = old

\* how many of the five parts of the session the step changes
Changed ==
  (IF dps' # dps THEN 1 ELSE 0) + (IF locations' # locations THEN 1 ELSE 0)
    + (IF capacities' # capacities THEN 1 ELSE 0)
    + (IF reports' # reports THEN 1 ELSE 0)
    + (IF visits' # visits THEN 1 ELSE 0)

\* no step changes or deletes an entry there is, or the number of a drop
\* point, or takes a drop point out of the session; a step that constructs
\* no drop point changes one part of the session at most, by one entry
\* appended to one drop point or by the removal time of one drop point set
C17_FrameStep ==
  /\ \A o \in DOMAIN dps :
       /\ Kept(locations[o], locations'[o])
       /\ Kept(capacities[o], capacities'[o])
       /\ Kept(reports[o], reports'[o])
       /\ Kept(visits[o], visits'[o])
       /\ dps'[o].number = dps[o].number
       /\ dps'[o].added = dps[o].added
  /\ Len(dps') = Len(dps)
       => /\ Changed <= 1
          /\ locations' # locations => OneAppended(locations, locations')
          /\ capacities' # capacities => OneAppended(capacities, capacities')
          /\ reports' # reports => OneAppended(reports, reports')
          /\ visits' # visits => OneAppended(visits, visits')
          /\ dps' # dps
               => \E o \in Added :
                    /\ dps[o].removed = None
                    /\ dps' = [dps EXCEPT ![o].removed = dps'[o].removed]
  /\ Len(dps') # Len(dps)
       => /\ Len(dps') = Len(dps) + 1
          /\ \A o \in DOMAIN dps :
               /\ dps'[o] = dps[o]
               /\ locations'[o] = locations[o]
               /\ capacities'[o] = capacities[o]
               /\ reports'[o] = reports[o]
               /\ visits'[o] = visits[o]

\* DropPoint.get(number) returns every drop point of the session by its
\* number, the removed ones too
C17_LookupInv ==
  \A o \in Added : Get(dps[o].number) = {o}

\* C17: history is permanent and an operation touches its own sequence
\* only.  Every location, capacity, report and visit entry stays where it
\* is and as it is in every step; report() changes the report log only,
\* visit() the visit log, an append of a location or capacity its timeline,
\* remove() the removal time; and a removed drop point is still returned by
\* the look-up, with its history.
C17_HistoryPermanent == []C17_LookupInv /\ [][C17_FrameStep]_vars

\* C17 witness: a removed drop point that was relocated and reported is in
\* the session with its two locations, its capacity and its report, and is
\* returned by the look-up
C17_Witness ==
  \E o \in Added :
    /\ dps[o].removed # None
    /\ Len(locations[o]) = 2
    /\ Len(capacities[o]) = 1
    /\ Len(reports[o]) = 1
    /\ Get(dps[o].number) = {o}

\* C18: no time in the session is in the future.  The start time of every
\* location and capacity, the time of every report and visit and the
\* removal time of every drop point are not later than the clock, which
\* does not go back; and remove(time) with a time in the future raises
\* ValueError on a drop point that is not removed, which stays so.
C18_NoFutureInv ==
  /\ \A o \in DOMAIN dps :
       /\ \A r \in Range(locations[o]) : r.start_time <= now
       /\ \A r \in Range(capacities[o]) : r.start_time <= now
       /\ \A r \in Range(reports[o]) : r.time <= now
       /\ \A v \in Range(visits[o]) : v.time <= now
       /\ dps[o].removed # None => dps[o].removed <= now
  /\ \A o \in Added, time \in TimeInputs \cup {Future} :
       (dps[o].removed = None /\ InFuture(time))
         => remove_raises(o, time) = "ValueError"

C18_ClockStep ==
  /\ now' >= now
  /\ \A o \in DOMAIN dps :
       (dps[o].removed = None /\ dps'[o].removed # None)
         => dps'[o].removed <= now

C18_NoFutureTimes == []C18_NoFutureInv /\ [][C18_ClockStep]_vars

\* C18 witness: the clock has advanced, and a drop point has a capacity, a
\* visit and a removal all of the clock's time, the latest they can have
C18_Witness ==
  \E o \in Added :
    /\ now > 0
    /\ dps[o].removed = now
    /\ \E r \in Range(capacities[o]) : r.start_time = now
    /\ \E v \in Range(visits[o]) : v.time = now

\* every field of every row is set
RowsComplete ==
  \A o \in DOMAIN dps :
    /\ \A r \in Range(locations[o]) :
         /\ DOMAIN r = {"start_time", "description", "lat", "lng", "level"}
         /\ r.start_time # None
    /\ \A r \in Range(capacities[o]) :
         /\ DOMAIN r = {"start_time", "crates"}
         /\ r.start_time # None /\ r.crates # None

\* C19 (as claimed): appends made at the same time keep the order.  Under
\* every interleaving of the checks and the additions of two Location, or
\* Capacity, constructors, the timelines of every drop point are
\* non-decreasing in start time in the order of insertion, and every row in
\* them is complete.
C19_ConcurrentAppendsOrdered ==
  /\ RowsComplete
  /\ \A o \in DOMAIN dps :
       /\ NonDecreasing(locations[o])
       /\ NonDecreasing(capacities[o])

\* what the code does keep: every row is complete when it is added
C19_RowsComplete == RowsComplete

\* the step is a successful creation with no crates given: the capacity
\* stored has 1 crate, get_current_crate_count() returns 1, and
\* get_priority() returns 1 * 1.1 * 3
DefaultAtCreation(number) ==
  (DropPoint_init(number, ValidLocation, None, None)
     /\ DropPoint_errors(number, ValidLocation, None, None) = <<>>)
    => \A o \in ObjectIds :
         o = Len(dps) + 1
           => /\ Len(capacities'[o]) = 1
              /\ capacities'[o][1].crates = 1
              /\ (get_current_crate_count(o))' = {1}
              /\ (get_priority(o))' = {330}

\* the step is a successful append of a capacity with no crates given: the
\* capacity stored has 1 crate, and when it is later than the capacities
\* before it get_current_crate_count() returns 1 and get_priority() has
\* the factor 1.1
DefaultAtAppend(o, start_time) ==
  (Capacity_init(o, None, start_time)
     /\ Capacity_errors(capacities[o], start_time, None) = <<>>)
    => /\ capacities'[o][Len(capacities'[o])].crates = 1
       /\ (\A r \in Range(capacities[o]) :
             r.start_time < StartTimeOf(start_time))
            => /\ (get_current_crate_count(o))' = {1}
               /\ (dps[o].removed = None /\ visits[o] = <<>>)
                    => (get_priority(o))' = {330 * (1 + Len(reports[o]))}

\* C20: the crate count defaults to 1.  A drop point created, or a capacity
\* appended, with no crates given stores a capacity of 1 crate, so that
\* get_current_crate_count() returns 1 and get_priority() multiplies by
\* 1.1.
C20_DefaultStep ==
  capacities' # capacities
    => /\ \A number \in NumberInputs : DefaultAtCreation(number)
       /\ \A o \in Added, start_time \in TimeInputs :
            DefaultAtAppend(o, start_time)

C20_Created ==
  \E o \in Added :
    /\ dps[o].removed = None
    /\ capacities[o] = <<[start_time |-> 0, crates |-> 1]>>
    /\ get_priority(o) = {330}

\* C21: a drop point that has visits and no report has the state
\* "UNKNOWN", whatever the action of its latest visit, "EMPTIED" too; and
\* get_last_state() returns a state of the enumeration of the reports or
\* "UNKNOWN", nothing else.
C21_VisitsOnlyUnknown ==
  \A o \in Added :
    /\ (reports[o] = <<>> /\ visits[o] # <<>>)
         => get_last_state(o) = {"UNKNOWN"}
    /\ get_last_state(o) # {}
    /\ get_last_state(o) \subseteq Range(report_states) \cup {"UNKNOWN"}

\* C21 witness: a drop point with no report whose latest visit, of the two
\* it has, has the action "EMPTIED", and the state "UNKNOWN"
C21_Witness ==
  \E o \in Added :
    /\ reports[o] = <<>>
    /\ Len(visits[o]) = 2
    /\ LatestActions(o) = {"EMPTIED"}
    /\ get_last_state(o) = {"UNKNOWN"}

====
